---- MODULE Spec2Model ----
(***************************************************************************)
(* Token lifecycle of cmd/cmd.go: the startup hook command.Before, which   *)
(* runs setupAuthForCLI or setupAuthForService and then starts the         *)
(* goroutine refreshAuthToken, against a nondeterministic Auth Provider    *)
(* (auth.Token, auth.Generate) and Credential Store (clitoken.Get/Save).   *)
(*                                                                         *)
(* Time is counted in ticks of 1/TicksPerSecond second, so that time.Time  *)
(* values carry a sub-second part and Time.Unix() truncates it.            *)
(***************************************************************************)
EXTENDS Integers, Sequences, FiniteSets, TLC

VARIABLES
    proc,     \* "running" | "fatal" (logger.Fatalf) | "panicked" (nil dereference)
              \* | "exited" (os.Exit(1) of Run)
    now,      \* time.Now(), in ticks
    cfg,      \* the process: service or CLI, its flags, how often it runs Before
    auth,     \* auth.DefaultAuth.Options(): ID, Secret, Token, Issuer
    store,    \* the Credential Store entry of the environment (clitoken)
    issued,   \* number of Tokens the Auth Provider has issued
    generated,\* number of Accounts the Auth Provider has generated
    before,   \* command.Before: executions finished, position of the running one
    loops,    \* the refreshAuthToken goroutines, one per execution of Before
    last,     \* record of the latest run of a startup flow (history)
    runErr,   \* the error DefaultCmd.Run() returned to Run(), nil while it runs
    stdout    \* the bytes Run() has written to the standard output

vars == <<proc, now, cfg, auth, store, issued, generated, before, loops, last, runErr,
          stdout>>

----------------------------------------------------------------------------
(* Bounds of the model *)

TicksPerSecond == 2
MaxNow == 1
MaxBefore == 2
MaxIssued == 2
\* longest error message, in bytes
MaxStr == 3

----------------------------------------------------------------------------
(* Durations (package time) and the time arithmetic the code uses *)

Second == TicksPerSecond
Minute == 60 * Second
Hour == 60 * Minute

CLIExpiry == 24 * Hour
ServiceExpiry == Hour
RefreshExpiry == 10 * Minute

\* Time.Unix(): whole seconds, the sub-second part dropped
Unix(t) == t \div Second

----------------------------------------------------------------------------
(* Values *)

NoErr == ""
ErrInvalidToken == "ErrInvalidToken"
ErrGeneric == "ErrGeneric"
ExchangeErrors == {ErrInvalidToken, ErrGeneric}

\* a nil *auth.Token
NilToken == [access |-> -1, refresh |-> "", expiry |-> 0]
\* the zero Token: what the Credential Store gives when nothing is persisted
NoRecord == [access |-> 0, refresh |-> "", expiry |-> 0]

\* expiries on both sides of every now + Minute the clock reaches
Expiries == {Minute + d : d \in 0..MaxNow + 1}
IssuedRefresh == {"", "r2"}
PersistedRefresh == {"", "r1"}

FlagNamespace == "micro"
EnvIssuer == "dev-issuer"

\* the Account the Auth Provider returns for its n-th generate call
GeneratedAccount(n) == [ID |-> "gen" \o ToString(n), Secret |-> "gensecret" \o ToString(n)]

NoCall == [op |-> "none", id |-> "", secret |-> "", refresh |-> "", issuer |-> "",
           ttl |-> 0, typ |-> "", scope |-> "", err |-> NoErr, tok |-> NilToken]

Answered(call, err, tok) == [call EXCEPT !.err = err, !.tok = tok]

\* no Account: what auth.Credentials was given, when it was not called
NoAccount == [ID |-> "", Secret |-> ""]

NoRun == [n |-> 0, flow |-> "none", path |-> "none", err |-> NoErr, calls |-> <<>>,
          loaded |-> NilToken, installed |-> NilToken, account |-> NoAccount,
          saved |-> NilToken, at |-> 0]

NoLoop == [pc |-> "unstarted", pending |-> FALSE, calls |-> <<>>, outcome |-> "none"]

\* a nil error; strings are sequences of bytes
NilError == [kind |-> "nil", detail |-> <<>>, message |-> <<>>]

----------------------------------------------------------------------------
(* auth.DefaultAuth.Init(opts...): each option sets its own fields *)

ClientToken(a, tok) == [a EXCEPT !.Token = tok]
Credentials(a, id, secret) == [a EXCEPT !.ID = id, !.Secret = secret]
Issuer(a, ns) == [a EXCEPT !.Issuer = ns]

----------------------------------------------------------------------------
Init ==
    /\ proc = "running"
    /\ now = 0
    /\ cfg \in [service : BOOLEAN, client_id : {"", "id0"}, client_secret : {"", "secret0"},
                runs : 1..MaxBefore]
    /\ auth = [ID |-> "", Secret |-> "", Token |-> NilToken, Issuer |-> ""]
    \* a service process has no Credential Store entry
    /\ store \in {NoRecord} \cup
                 IF cfg.service THEN {}
                 ELSE [access : {0}, refresh : PersistedRefresh, expiry : Expiries]
    /\ issued = 0
    /\ generated = 0
    /\ before = [n |-> 0, pc |-> "idle"]
    /\ loops = [l \in 1..MaxBefore |-> NoLoop]
    /\ last = NoRun
    /\ runErr = NilError
    /\ stdout = <<>>

\* the Tokens the Auth Provider may answer an exchange with, each a new access token
NewTokens == [access : {issued + 1}, refresh : IssuedRefresh, expiry : Expiries]

----------------------------------------------------------------------------
(* command.Before *)

\* lines 417-437: the flags' options are applied to the auth state
BeforeAuthOpts(a) ==
    LET a1 == IF FlagNamespace # "" THEN Issuer(a, FlagNamespace) ELSE a
    IN  IF cfg.client_id # "" \/ cfg.client_secret # ""
        THEN Credentials(a1, cfg.client_id, cfg.client_secret)
        ELSE a1

\* lines 353-437: everything before the startup flow
BeforeInit ==
    /\ proc = "running"
    /\ before.pc = "idle"
    /\ before.n < cfg.runs
    /\ auth' = BeforeAuthOpts(auth)
    /\ before' = [before EXCEPT !.pc = "auth"]
    /\ UNCHANGED <<proc, now, cfg, runErr, stdout, store, issued, generated, loops, last>>

\* lines 360-362 and 395-398: Before returns before it reaches the auth setup
BeforeReturnsEarly ==
    /\ proc = "running"
    /\ before.pc = "idle"
    /\ before.n < cfg.runs
    /\ before' = [before EXCEPT !.n = before.n + 1]
    /\ UNCHANGED <<proc, now, cfg, runErr, stdout, auth, store, issued, generated, loops, last>>

\* the error of the startup flow only logged
LogOnError(err) == proc

\* lines 447-449: any error of the startup flow ends the process (logger.Fatalf)
FatalOnError(err) == IF err # NoErr THEN "fatal" ELSE proc

\* the goroutine started whatever the flow returned
StartLoopAlways(err, ls, l) == [ls EXCEPT ![l] = [NoLoop EXCEPT !.pc = "start"]]

\* line 451: go refreshAuthToken(), reached only when the flow returned nil
StartLoop(err, ls, l) == IF err # NoErr THEN ls ELSE [ls EXCEPT ![l] = [NoLoop EXCEPT !.pc = "start"]]

\* lines 441-451: the flow has returned err, leaving auth state a1 and store s1
\* last: the flow's path, result and calls, the Token it loaded, the Token and the
\* Account it gave auth.DefaultAuth.Init, the Token it gave clitoken.Save, the time
BeforeAuthDone(flow, path, err, calls, loaded, installed, account, saved, a1, s1) ==
    /\ auth' = a1
    /\ store' = s1
    /\ proc' = FatalOnError(err)
    /\ loops' = StartLoop(err, loops, before.n + 1)
    /\ before' = [n |-> before.n + 1, pc |-> "idle"]
    /\ last' = [n |-> before.n + 1, flow |-> flow, path |-> path, err |-> err,
                calls |-> calls, loaded |-> loaded, installed |-> installed,
                account |-> account, saved |-> saved, at |-> now]
    /\ UNCHANGED <<now, cfg, runErr, stdout>>

----------------------------------------------------------------------------
(* setupAuthForCLI *)

\* clitoken.Get: the persisted record of the environment
Get(s) == s

\* clitoken.Save: the record of the environment is overwritten
Save(s, tok) == tok

\* line 164: len(tok.RefreshToken) == 0
NoRefreshToken(tok) == tok.refresh = ""

\* After in the place of Before
CLITokenValidAfter(tok, t) == t > tok.expiry - Minute

\* line 169: time.Now().Before(tok.Expiry.Add(time.Minute * -1))
CLITokenValid(tok, t) == t < tok.expiry - Minute

\* the exchange without auth.WithTokenIssuer
CLIRefreshCallNoIssuer(tok, ns) ==
    [NoCall EXCEPT !.op = "refresh", !.refresh = tok.refresh, !.ttl = CLIExpiry]

\* lines 178-182: the refresh exchange of the CLI flow
CLIRefreshCall(tok, ns) ==
    [NoCall EXCEPT !.op = "refresh", !.refresh = tok.refresh, !.issuer = ns,
                   !.ttl = CLIExpiry]

\* the error of the exchange returned to Before
CLIRefreshFailedReturned(err) == err

\* lines 183-185: a failed exchange is swallowed
CLIRefreshFailed(err) == NoErr

\* the issuer installed without the Token
CLIInstallIssuerOnly(a, tok, ns) == Issuer(a, ns)

\* lines 170-173 and 188-191: the Token and the issuer are installed
CLIInstall(a, tok, ns) == Issuer(ClientToken(a, tok), ns)

\* the loaded Token saved back
CLISavedOld(newTok, oldTok) == oldTok

\* line 192: the Token handed to clitoken.Save
CLISaved(newTok, oldTok) == newTok

CLIEntered ==
    /\ proc = "running"
    /\ before.pc = "auth"
    /\ ~cfg.service

\* lines 149-161: the environment, its namespace or the persisted Token cannot be read
CLILookupFails ==
    /\ CLIEntered
    /\ \E e \in {"ErrGetEnv", "ErrNamespace", "ErrTokenGet"} :
          BeforeAuthDone("cli", "lookup-failed", e, <<>>, NilToken, NilToken, NoAccount,
                         NilToken, auth, store)
    /\ UNCHANGED <<issued, generated>>

\* lines 163-166
CLINoRefreshToken ==
    /\ CLIEntered
    /\ LET tok == Get(store) IN
          /\ NoRefreshToken(tok)
          /\ BeforeAuthDone("cli", "no-refresh-token", NoErr, <<>>, tok, NilToken, NoAccount,
                            NilToken, auth, store)
    /\ UNCHANGED <<issued, generated>>

\* lines 168-175
CLIValidToken ==
    /\ CLIEntered
    /\ LET tok == Get(store) IN
          /\ ~NoRefreshToken(tok)
          /\ CLITokenValid(tok, now)
          /\ BeforeAuthDone("cli", "valid", NoErr, <<>>, tok, tok, NoAccount, NilToken,
                            CLIInstall(auth, tok, EnvIssuer), store)
    /\ UNCHANGED <<issued, generated>>

\* lines 177-185, the exchange fails
CLIRefreshFails ==
    /\ CLIEntered
    /\ LET tok == Get(store) IN
          /\ ~NoRefreshToken(tok)
          /\ ~CLITokenValid(tok, now)
          /\ \E e \in ExchangeErrors :
                BeforeAuthDone("cli", "refresh-failed", CLIRefreshFailed(e),
                               <<Answered(CLIRefreshCall(tok, EnvIssuer), e, NilToken)>>,
                               tok, NilToken, NoAccount, NilToken, auth, store)
    /\ UNCHANGED <<issued, generated>>

\* lines 177-193, the exchange succeeds; clitoken.Save succeeds or fails
CLIRefreshSucceeds ==
    /\ CLIEntered
    /\ issued < MaxIssued
    /\ LET tok == Get(store) IN
          /\ ~NoRefreshToken(tok)
          /\ ~CLITokenValid(tok, now)
          /\ \E new \in NewTokens, saveErr \in {NoErr, "ErrTokenSave"} :
                LET arg == CLISaved(new, tok) IN
                BeforeAuthDone("cli", "refreshed", saveErr,
                               <<Answered(CLIRefreshCall(tok, EnvIssuer), NoErr, new)>>,
                               tok, new, NoAccount, arg, CLIInstall(auth, new, EnvIssuer),
                               IF saveErr = NoErr THEN Save(store, arg) ELSE store)
    /\ issued' = issued + 1
    /\ UNCHANGED generated

setupAuthForCLI ==
    \/ CLILookupFails
    \/ CLINoRefreshToken
    \/ CLIValidToken
    \/ CLIRefreshFails
    \/ CLIRefreshSucceeds

----------------------------------------------------------------------------
(* setupAuthForService *)

\* && in the place of ||
NoCredentialsAtAll(id, secret) == id = "" /\ secret = ""

\* line 204: len(accID) == 0 || len(accSecret) == 0
NoCredentials(id, secret) == id = "" \/ secret = ""

\* lines 205-210: auth.Generate(uuid, WithType("service"), WithScopes("service"))
GenerateCall == [NoCall EXCEPT !.op = "generate", !.typ = "service", !.scope = "service"]

\* lines 223-226: the first Token is asked for the credentials, for one hour
ServiceTokenCall(id, secret) ==
    [NoCall EXCEPT !.op = "credentials", !.id = id, !.secret = secret,
                   !.ttl = ServiceExpiry]

\* the Token installed without auth.Credentials
ServiceInstallTokenOnly(a, tok, id, secret) == ClientToken(a, tok)

\* lines 232-235: the Token and the credentials are installed
ServiceInstall(a, tok, id, secret) == Credentials(ClientToken(a, tok), id, secret)

ServiceEntered ==
    /\ proc = "running"
    /\ before.pc = "auth"
    /\ cfg.service

\* lines 200-220 when auth.Generate succeeds or is not needed: the credentials used
ServiceAccount ==
    IF NoCredentials(auth.ID, auth.Secret)
    THEN GeneratedAccount(generated + 1)
    ELSE [ID |-> auth.ID, Secret |-> auth.Secret]

ServiceGenerated ==
    IF NoCredentials(auth.ID, auth.Secret)
    THEN <<[Answered(GenerateCall, NoErr, NilToken) EXCEPT
               !.id = ServiceAccount.ID, !.secret = ServiceAccount.Secret]>>
    ELSE <<>>

\* lines 204-213: auth.Generate fails
ServiceGenerateFails ==
    /\ ServiceEntered
    /\ NoCredentials(auth.ID, auth.Secret)
    /\ BeforeAuthDone("service", "generate-failed", "ErrGenerate",
                      <<Answered(GenerateCall, "ErrGenerate", NilToken)>>,
                      NilToken, NilToken, NoAccount, NilToken, auth, store)
    /\ UNCHANGED <<issued, generated>>

\* lines 222-229: the first exchange fails
ServiceTokenFails ==
    /\ ServiceEntered
    /\ \E e \in ExchangeErrors :
          BeforeAuthDone("service", "token-failed", e,
                         ServiceGenerated \o
                         <<Answered(ServiceTokenCall(ServiceAccount.ID, ServiceAccount.Secret),
                                    e, NilToken)>>,
                         NilToken, NilToken, NoAccount, NilToken, auth, store)
    /\ generated' = generated + Len(ServiceGenerated)
    /\ UNCHANGED issued

\* lines 196-237 without an error
ServiceSucceeds ==
    /\ ServiceEntered
    /\ issued < MaxIssued
    /\ \E new \in NewTokens :
          BeforeAuthDone("service", "installed", NoErr,
                         ServiceGenerated \o
                         <<Answered(ServiceTokenCall(ServiceAccount.ID, ServiceAccount.Secret),
                                    NoErr, new)>>,
                         NilToken, new, ServiceAccount, NilToken,
                         ServiceInstall(auth, new, ServiceAccount.ID, ServiceAccount.Secret),
                         store)
    /\ generated' = generated + Len(ServiceGenerated)
    /\ issued' = issued + 1

setupAuthForService ==
    \/ ServiceGenerateFails
    \/ ServiceTokenFails
    \/ ServiceSucceeds

----------------------------------------------------------------------------
(* refreshAuthToken, one goroutine per execution of Before that reached line 451 *)

Loops == 1..MaxBefore

\* the comparison turned round
CloseToExpiring(tok, t) == Unix(tok.expiry) < Unix(t + Minute)

\* line 254: tok.Expiry.Unix() > time.Now().Add(time.Minute).Unix()
NotCloseToExpiring(tok, t) == Unix(tok.expiry) > Unix(t + Minute)

\* every error taken for ErrInvalidToken
IsError(err) == err # NoErr

\* line 263: err == auth.ErrInvalidToken
IsInvalidToken(err) == err = ErrInvalidToken

\* lines 259-262: the refresh exchange of the loop
LoopRefreshCall(tok) ==
    [NoCall EXCEPT !.op = "refresh", !.refresh = tok.refresh, !.ttl = RefreshExpiry]

\* the credential exchange asking for the Service flow's hour
LoopCredentialsCallHour(a) ==
    [NoCall EXCEPT !.op = "credentials", !.id = a.ID, !.secret = a.Secret,
                   !.ttl = ServiceExpiry]

\* lines 266-272: the exchange of the credentials held in the auth state
LoopCredentialsCall(a) ==
    [NoCall EXCEPT !.op = "credentials", !.id = a.ID, !.secret = a.Secret,
                   !.ttl = RefreshExpiry]

\* the fields of the current Token overwritten in place, the expiry left for later
LoopInstallInPlace(a, tok) ==
    [a EXCEPT !.Token = [access |-> tok.access, refresh |-> tok.refresh,
                         expiry |-> a.Token.expiry]]

\* line 280: auth.DefaultAuth.Init(auth.ClientToken(tok))
LoopInstall(a, tok) == ClientToken(a, tok)

\* lines 273-276: any other error ends the tick, the loop waits for the next one
AfterTransientError(a) == a

\* the ticker started without the check of lines 241-244
LoopStartUnchecked(l) ==
    /\ proc = "running"
    /\ loops[l].pc = "start"
    /\ loops' = [loops EXCEPT ![l].pc = "waiting"]
    /\ UNCHANGED <<proc, now, cfg, runErr, stdout, auth, store, issued, generated, before, last>>

\* lines 241-246: without a Token the goroutine returns, otherwise the ticker starts
LoopStart(l) ==
    /\ proc = "running"
    /\ loops[l].pc = "start"
    /\ loops' = [loops EXCEPT ![l].pc = IF auth.Token = NilToken THEN "exited" ELSE "waiting"]
    /\ UNCHANGED <<proc, now, cfg, runErr, stdout, auth, store, issued, generated, before, last>>

\* the ticker of line 246 delivers a tick into t.C (capacity one: a tick is dropped
\* while one waits)
TickerFires(l) ==
    /\ proc = "running"
    /\ loops[l].pc \in {"waiting", "refreshing", "regenerating"}
    /\ ~loops[l].pending
    /\ loops' = [loops EXCEPT ![l].pending = TRUE]
    /\ UNCHANGED <<proc, now, cfg, runErr, stdout, auth, store, issued, generated, before, last>>

\* lines 250-256 (a tick is received from t.C): a tick on which the Token is not close to expiring
TickIdle(l) ==
    /\ proc = "running"
    /\ loops[l].pc = "waiting"
    /\ loops[l].pending
    /\ NotCloseToExpiring(auth.Token, now)
    /\ loops' = [loops EXCEPT ![l] = [pc |-> "waiting", pending |-> FALSE, calls |-> <<>>,
                                      outcome |-> "idle"]]
    /\ UNCHANGED <<proc, now, cfg, runErr, stdout, auth, store, issued, generated, before, last>>

\* lines 251-262: a tick on which the refresh exchange is sent
TickRefresh(l) ==
    /\ proc = "running"
    /\ loops[l].pc = "waiting"
    /\ loops[l].pending
    /\ ~NotCloseToExpiring(auth.Token, now)
    /\ loops' = [loops EXCEPT ![l] = [pc |-> "refreshing", pending |-> FALSE,
                                      calls |-> <<LoopRefreshCall(auth.Token)>>,
                                      outcome |-> "busy"]]
    /\ UNCHANGED <<proc, now, cfg, runErr, stdout, auth, store, issued, generated, before, last>>

\* lines 259-280: the refresh exchange returns a Token, which is installed
RefreshSucceeds(l) ==
    /\ proc = "running"
    /\ issued < MaxIssued
    /\ loops[l].pc = "refreshing"
    /\ \E new \in NewTokens :
          /\ auth' = LoopInstall(auth, new)
          /\ loops' = [loops EXCEPT ![l].pc = "waiting", ![l].outcome = "refreshed",
                                    ![l].calls = <<Answered(loops[l].calls[1], NoErr, new)>>]
    /\ issued' = issued + 1
    /\ UNCHANGED <<proc, now, cfg, runErr, stdout, store, generated, before, last>>

\* lines 263-276: the refresh exchange returns an error
RefreshFails(l) ==
    /\ proc = "running"
    /\ loops[l].pc = "refreshing"
    /\ \E e \in ExchangeErrors :
          LET answered == <<Answered(loops[l].calls[1], e, NilToken)>> IN
          IF IsInvalidToken(e)
          THEN /\ loops' = [loops EXCEPT ![l].pc = "regenerating",
                                         ![l].calls = Append(answered, LoopCredentialsCall(auth))]
               /\ auth' = auth
          ELSE /\ loops' = [loops EXCEPT ![l].pc = "waiting", ![l].outcome = "transient",
                                         ![l].calls = answered]
               /\ auth' = AfterTransientError(auth)
    /\ UNCHANGED <<proc, now, cfg, runErr, stdout, store, issued, generated, before, last>>

\* lines 266-280: the credential exchange returns a Token, which is installed
RegenerateSucceeds(l) ==
    /\ proc = "running"
    /\ issued < MaxIssued
    /\ loops[l].pc = "regenerating"
    /\ \E new \in NewTokens :
          /\ auth' = LoopInstall(auth, new)
          /\ loops' = [loops EXCEPT ![l].pc = "waiting", ![l].outcome = "regenerated",
                                    ![l].calls[2] = Answered(loops[l].calls[2], NoErr, new)]
    /\ issued' = issued + 1
    /\ UNCHANGED <<proc, now, cfg, runErr, stdout, store, generated, before, last>>

\* lines 266-279: the credential exchange returns (nil, err); err is not looked at and
\* tok.Expiry of line 279 dereferences the nil Token: the goroutine panics
RegenerateFails(l) ==
    /\ proc = "running"
    /\ loops[l].pc = "regenerating"
    /\ \E e \in ExchangeErrors :
          loops' = [loops EXCEPT ![l].pc = "panicked", ![l].outcome = "regenerate-failed",
                                 ![l].calls[2] = Answered(loops[l].calls[2], e, NilToken)]
    /\ proc' = "panicked"
    /\ UNCHANGED <<now, cfg, runErr, stdout, auth, store, issued, generated, before, last>>

refreshAuthToken(l) ==
    \/ LoopStart(l)
    \/ TickerFires(l)
    \/ TickIdle(l)
    \/ TickRefresh(l)
    \/ RefreshSucceeds(l)
    \/ RefreshFails(l)
    \/ RegenerateSucceeds(l)
    \/ RegenerateFails(l)

----------------------------------------------------------------------------
\* time passes
Advance ==
    /\ proc = "running"
    /\ now < MaxNow
    /\ now' = now + 1
    /\ UNCHANGED <<proc, cfg, runErr, stdout, auth, store, issued, generated, before, loops, last>>

Next ==
    \/ BeforeInit
    \/ BeforeReturnsEarly
    \/ setupAuthForCLI
    \/ setupAuthForService
    \/ \E l \in Loops : refreshAuthToken(l)
    \/ Advance

Spec == Init /\ [][Next]_vars

\* A process whose startup hook runs once: one flow, at most one Refresh Loop
InitOnce == Init /\ cfg.runs = 1

SpecOnce == InitOnce /\ [][Next]_vars

----------------------------------------------------------------------------
(* Run, formatErr, upcaseInitial *)

\* the bytes of the messages: "a", "A", " ", and 0xC3 0xA9, the UTF-8 encoding of U+00E9
Bytes == {97, 65, 32, 195, 169}

Strings == UNION {[1..k -> Bytes] : k \in 0..MaxStr}

\* the errors app.Run may return: a *errors.Error, whose Error() is not its Detail,
\* or any other error
Errors ==
    {[kind |-> "errors.Error", detail |-> s, message |-> <<123>> \o s \o <<125>>] : s \in Strings}
    \cup {[kind |-> "error", detail |-> <<>>, message |-> s] : s \in Strings}

\* utf8.RuneError, what a byte that starts no valid encoding decodes to
RuneError == 65533

\* the rune a range loop over a string yields first, and the bytes it takes (UTF-8)
DecodeRune(str) ==
    LET n == Len(str)
        b0 == str[1]
        cont(i) == i <= n /\ str[i] \in 128..191
        low(i) == str[i] - 128
    IN  IF b0 < 128 THEN [r |-> b0, w |-> 1]
        ELSE IF b0 \in 194..223 /\ cont(2)
        THEN [r |-> (b0 - 192) * 64 + low(2), w |-> 2]
        ELSE IF b0 \in 224..239 /\ cont(2) /\ cont(3)
                /\ (b0 = 224 => str[2] >= 160) /\ (b0 = 237 => str[2] <= 159)
        THEN [r |-> (b0 - 224) * 4096 + low(2) * 64 + low(3), w |-> 3]
        ELSE IF b0 \in 240..244 /\ cont(2) /\ cont(3) /\ cont(4)
                /\ (b0 = 240 => str[2] >= 144) /\ (b0 = 244 => str[2] <= 143)
        THEN [r |-> (b0 - 240) * 262144 + low(2) * 4096 + low(3) * 64 + low(4), w |-> 4]
        ELSE [r |-> RuneError, w |-> 1]

\* string(r): the UTF-8 encoding of a rune
EncodeRune(r) ==
    IF r < 128 THEN <<r>>
    ELSE IF r < 2048 THEN <<192 + r \div 64, 128 + (r % 64)>>
    ELSE IF r < 65536 THEN <<224 + r \div 4096, 128 + ((r \div 64) % 64), 128 + (r % 64)>>
    ELSE <<240 + r \div 262144, 128 + ((r \div 4096) % 64), 128 + ((r \div 64) % 64),
           128 + (r % 64)>>

\* unicode.ToUpper on ASCII and Latin-1, the runes the messages are made of
ToUpper(r) ==
    IF r \in 97..122 THEN r - 32
    ELSE IF r \in 224..254 /\ r # 247 THEN r - 32
    ELSE IF r = 181 THEN 924
    ELSE IF r = 255 THEN 376
    ELSE r

\* lines 136-141: the first iteration of the range loop returns; its index i is 0
upcaseInitial(str) ==
    IF str = <<>> THEN <<>>
    ELSE LET i == 0
             v == DecodeRune(str).r
         IN  EncodeRune(ToUpper(v)) \o SubSeq(str, i + 2, Len(str))

\* lines 127-134
formatErr(e) ==
    IF e.kind = "errors.Error" THEN upcaseInitial(e.detail) ELSE upcaseInitial(e.message)

\* fmt.Println: the operand and a newline
Println(str) == str \o <<10>>

\* lines 534-538: DefaultCmd.Run() has returned an error
Run ==
    /\ proc = "running"
    /\ runErr # NilError
    /\ stdout' = stdout \o Println(formatErr(runErr))
    /\ proc' = "exited"
    /\ UNCHANGED <<now, cfg, auth, store, issued, generated, before, loops, last, runErr>>

\* A process whose DefaultCmd.Run() returns an error
InitFormatErr ==
    /\ proc = "running"
    /\ now = 0
    /\ cfg = [service |-> FALSE, client_id |-> "", client_secret |-> "", runs |-> 1]
    /\ auth = [ID |-> "", Secret |-> "", Token |-> NilToken, Issuer |-> ""]
    /\ store = NoRecord
    /\ issued = 0
    /\ generated = 0
    /\ before = [n |-> 0, pc |-> "idle"]
    /\ loops = [l \in 1..MaxBefore |-> NoLoop]
    /\ last = NoRun
    /\ runErr \in Errors
    /\ stdout = <<>>

SpecFormatErr == InitFormatErr /\ [][Run]_vars

----------------------------------------------------------------------------
(* Steps and states the properties below speak of *)

\* a step in which goroutine l receives a tick from t.C
TickReceived(l) == loops[l].pc = "waiting" /\ loops[l].pending /\ ~loops'[l].pending

\* a step in which the refresh exchange of goroutine l is answered
RefreshAnswered(l) == loops[l].pc = "refreshing" /\ loops'[l].pc # "refreshing"

\* a step in which the credential exchange of goroutine l is answered
RegenerateAnswered(l) == loops[l].pc = "regenerating" /\ loops'[l].pc # "regenerating"

\* a step in which a startup flow returns
FlowReturns == last'.n # last.n

\* the latest CLI flow read a persisted Token from the Credential Store
CLILoaded == last.flow = "cli" /\ last.loaded # NilToken /\ last.loaded # NoRecord

\* the tick of goroutine l got ErrInvalidToken for its refresh exchange
RefreshWasInvalid(l) ==
    /\ Len(loops[l].calls) >= 1
    /\ loops[l].calls[1].op = "refresh"
    /\ loops[l].calls[1].err = ErrInvalidToken

Presented(call) == [ID |-> call.id, Secret |-> call.secret]

----------------------------------------------------------------------------
(* C1 *)

\* C1 (as claimed): when the refresh exchange of a tick returns ErrInvalidToken and
\* the credential exchange that follows fails too, the process keeps running, the
\* loop goes back to waiting for the next tick and the current Token is unchanged.
C1_RegenerateFailureNotFatal ==
    [][\A l \in Loops :
          (RegenerateAnswered(l) /\ loops'[l].calls[2].err # NoErr)
             => /\ proc' = "running"
                /\ loops'[l].pc = "waiting"
                /\ auth'.Token = auth.Token]_vars

----------------------------------------------------------------------------
(* C2 *)

\* C2 (as claimed): a tick whose refresh exchange returns ErrInvalidToken makes
\* exactly one credential exchange, for 10 minutes, presenting the Account that the
\* startup flow (CLI or Service) installed.
C2_RegeneratePresentsFlowAccount ==
    \A l \in Loops :
       RefreshWasInvalid(l)
          => /\ Len(loops[l].calls) = 2
             /\ loops[l].calls[2].op = "credentials"
             /\ loops[l].calls[2].ttl = RefreshExpiry
             /\ last.account # NoAccount
             /\ Presented(loops[l].calls[2]) = last.account

\* C2 (amended): a tick whose refresh exchange returns ErrInvalidToken makes exactly
\* one credential exchange, for 10 minutes, presenting the ID and secret held in the
\* auth state: the Account the Service flow installed, or, after the CLI flow (which
\* installs no Account), the client_id and client_secret flags, empty when unset.
C2_RegeneratePresentsAuthState ==
    [][\A l \in Loops :
          /\ (RefreshAnswered(l) /\ loops'[l].calls[1].err = ErrInvalidToken)
                => /\ Len(loops'[l].calls) = 2
                   /\ loops'[l].pc = "regenerating"
                   /\ loops'[l].calls[2].op = "credentials"
                   /\ loops'[l].calls[2].ttl = RefreshExpiry
                   /\ loops'[l].calls[2].refresh = ""
                   /\ Presented(loops'[l].calls[2]) = [ID |-> auth.ID, Secret |-> auth.Secret]
                   /\ (cfg.service /\ before.pc = "idle")
                         => Presented(loops'[l].calls[2]) = last.account
                   /\ ~cfg.service
                         => /\ last.account = NoAccount
                            /\ Presented(loops'[l].calls[2]) =
                                  [ID |-> cfg.client_id, Secret |-> cfg.client_secret]
          /\ RegenerateAnswered(l)
                => /\ Len(loops'[l].calls) = 2
                   /\ loops'[l].pc \in {"waiting", "panicked"}
                   /\ loops'[l].calls[1] = loops[l].calls[1]]_vars

\* after the CLI flow without flags, the credential exchange presents empty credentials
C2_Witness ==
    \E l \in Loops :
       /\ RefreshWasInvalid(l)
       /\ ~cfg.service
       /\ Presented(loops[l].calls[2]) = NoAccount

----------------------------------------------------------------------------
(* C3 *)

\* C3: when the refresh exchange of a tick fails with an error other than
\* ErrInvalidToken, the tick makes no credential exchange, leaves the auth state
\* (Token and Account) unchanged and the process running, and the loop waits for the
\* next tick, which sends the refresh exchange again (the Token still being close to
\* expiring).
C3_TransientErrorRetried ==
    [][\A l \in Loops :
          /\ (RefreshAnswered(l) /\ loops'[l].calls[1].err \notin {NoErr, ErrInvalidToken})
                => /\ Len(loops'[l].calls) = 1
                   /\ loops'[l].pc = "waiting"
                   /\ loops'[l].outcome = "transient"
                   /\ auth' = auth
                   /\ proc' = "running"
          /\ (TickReceived(l) /\ loops[l].outcome = "transient"
                /\ Unix(auth.Token.expiry) <= Unix(now + Minute))
                => /\ loops'[l].pc = "refreshing"
                   /\ loops'[l].calls = <<LoopRefreshCall(auth.Token)>>]_vars

\* a tick has ended on a transient error and the next tick is there
C3_Witness ==
    \E l \in Loops :
       /\ loops[l].outcome = "transient"
       /\ loops[l].calls[1].err = ErrGeneric
       /\ loops[l].pending
       /\ proc = "running"

----------------------------------------------------------------------------
(* C4 *)

\* C4 (as claimed): for every persisted Token with expiry > now + 1 minute, whatever
\* its refreshToken, the CLI flow installs it and calls the Auth Provider not at all.
C4_ValidTokenInstalled ==
    (CLILoaded /\ last.loaded.expiry > last.at + Minute)
       => /\ last.installed = last.loaded
          /\ last.calls = <<>>

\* C4 (amended): for every persisted Token with a non-empty refreshToken and
\* expiry > now + 1 minute, the CLI flow installs that Token unchanged as the current
\* Token and calls the Auth Provider not at all; a persisted Token with an empty
\* refreshToken is not installed (the flow returns nil without a call).
C4_ValidRefreshableTokenInstalled ==
    [][(FlowReturns /\ last'.flow = "cli" /\ last'.loaded \notin {NilToken, NoRecord})
          => /\ last'.loaded = store /\ last'.at = now
             /\ (last'.loaded.refresh # "" /\ last'.loaded.expiry > now + Minute)
                   => /\ last'.installed = last'.loaded
                      /\ auth'.Token = last'.loaded
                      /\ last'.calls = <<>>
                      /\ last'.err = NoErr
             /\ last'.loaded.refresh = ""
                   => /\ last'.installed = NilToken
                      /\ auth' = auth
                      /\ last'.calls = <<>>
                      /\ last'.err = NoErr]_vars

\* the CLI flow has installed a persisted Token that was not close to expiring
C4_Witness ==
    /\ CLILoaded
    /\ last.loaded.refresh # ""
    /\ last.loaded.expiry > last.at + Minute
    /\ auth.Token = last.loaded

----------------------------------------------------------------------------
(* C5 *)

\* the one call of the latest flow is the refresh exchange of tok for the environment
OneCLIRefresh(tok) ==
    /\ Len(last.calls) = 1
    /\ last.calls[1].op = "refresh"
    /\ last.calls[1].refresh = tok.refresh
    /\ last.calls[1].issuer = EnvIssuer
    /\ last.calls[1].ttl = CLIExpiry
    /\ last.calls[1].id = "" /\ last.calls[1].secret = ""

\* C5 (as claimed): for every persisted Token with expiry <= now + 1 minute the CLI
\* flow makes exactly one Auth Provider call, the refresh exchange of the stored
\* refreshToken with the environment's issuer and a 24-hour validity.
C5_ExpiringTokenRefreshed ==
    (CLILoaded /\ last.loaded.expiry <= last.at + Minute) => OneCLIRefresh(last.loaded)

\* C5 (amended): for every persisted Token with a non-empty refreshToken and
\* expiry <= now + 1 minute the CLI flow makes exactly one Auth Provider call, the
\* refresh exchange of the stored refreshToken with the environment's issuer and a
\* 24-hour validity; with an empty refreshToken it makes no call.
C5_ExpiringRefreshableTokenRefreshed ==
    /\ (CLILoaded /\ last.loaded.refresh # "" /\ last.loaded.expiry <= last.at + Minute)
          => OneCLIRefresh(last.loaded)
    /\ (CLILoaded /\ last.loaded.refresh = "") => last.calls = <<>>

\* the CLI flow has refreshed a persisted Token whose expiry was exactly now + 1 minute
C5_Witness ==
    /\ CLILoaded
    /\ last.loaded.expiry = last.at + Minute
    /\ OneCLIRefresh(last.loaded)
    /\ last.calls[1].refresh = "r1"

----------------------------------------------------------------------------
(* C6 *)

\* the refresh exchange of the latest CLI flow failed
CLIRefreshHasFailed ==
    /\ last.flow = "cli"
    /\ Len(last.calls) = 1
    /\ last.calls[1].err # NoErr

\* C6: when the refresh exchange of the CLI flow fails, with any error, the flow
\* returns nil (the process keeps running), no Token is installed in the auth state
\* and the Credential Store entry is left unchanged.
C6_FailedRefreshSwallowed ==
    [][(FlowReturns /\ last'.flow = "cli" /\ Len(last'.calls) = 1
          /\ last'.calls[1].err # NoErr)
          => /\ last'.err = NoErr
             /\ proc' = "running"
             /\ last'.installed = NilToken
             /\ auth' = auth
             /\ (cfg.runs = 1 => auth'.Token = NilToken)
             /\ last'.saved = NilToken
             /\ store' = store]_vars

\* the refresh exchange of the CLI flow has failed with ErrInvalidToken
C6_Witness == CLIRefreshHasFailed /\ last.calls[1].err = ErrInvalidToken

----------------------------------------------------------------------------
(* C7 *)

\* the latest Service flow was given no Account and none of its calls failed
ServiceSelfProvisioned ==
    /\ last.flow = "service"
    /\ cfg.client_id = "" /\ cfg.client_secret = ""
    /\ last.err = NoErr

\* C7: when the Service flow runs with no supplied Account and the provider calls
\* succeed, it makes exactly one generate call (type service, scope service), then
\* exactly one credential exchange presenting the generated ID and secret for one
\* hour, and on return the generated Account and the returned Token are installed.
C7_ServiceGeneratesThenExchanges ==
    [][(FlowReturns /\ last'.flow = "service" /\ auth.ID = "" /\ auth.Secret = ""
          /\ last'.err = NoErr)
          => /\ Len(last'.calls) = 2
             /\ last'.calls[1].op = "generate"
             /\ last'.calls[1].typ = "service" /\ last'.calls[1].scope = "service"
             /\ last'.calls[1].err = NoErr
             /\ last'.calls[2].op = "credentials"
             /\ Presented(last'.calls[2]) = Presented(last'.calls[1])
             /\ last'.calls[2].ttl = ServiceExpiry
             /\ last'.calls[2].err = NoErr
             /\ last'.account = Presented(last'.calls[1])
             /\ last'.account # NoAccount
             /\ last'.installed = last'.calls[2].tok
             /\ last'.installed # NilToken
             /\ [ID |-> auth'.ID, Secret |-> auth'.Secret] = last'.account
             /\ auth'.Token = last'.installed
             /\ proc' = "running"]_vars

\* the Service flow has returned after generating an Account, the loop not yet run
C7_Witness ==
    /\ ServiceSelfProvisioned
    /\ loops[last.n].pc = "start"
    /\ auth.ID = GeneratedAccount(1).ID
    /\ auth.Token = last.calls[2].tok

----------------------------------------------------------------------------
(* C8 *)

\* a call of the latest Service flow failed
ServiceCallFailed ==
    /\ last.flow = "service"
    /\ Len(last.calls) >= 1
    /\ last.calls[Len(last.calls)].err # NoErr

\* C8: in the Service flow a failure of generate or of the first credential exchange
\* is fatal to startup: the flow returns the error, no Token and no generated Account
\* are installed, a generate failure is followed by no credential exchange, and the
\* Refresh Loop is never started.
C8_ServiceFailureFatal ==
    /\ [](ServiceCallFailed
            => /\ last.err = last.calls[Len(last.calls)].err
               /\ proc = "fatal"
               /\ last.installed = NilToken
               /\ last.account = NoAccount
               /\ last.calls[1].op = "generate" /\ last.calls[1].err # NoErr
                     => Len(last.calls) = 1
               /\ \A l \in Loops : l >= last.n => loops[l].pc = "unstarted")
    /\ [][(FlowReturns /\ last'.flow = "service" /\ last'.err # NoErr)
            => /\ auth' = auth
               /\ (cfg.runs = 1 => auth'.Token = NilToken)
               /\ loops' = loops]_vars

\* auth.Generate has failed
C8_Witness ==
    /\ ServiceCallFailed
    /\ last.calls[1].op = "generate"
    /\ last.calls[1].err # NoErr

----------------------------------------------------------------------------
(* C9 *)

\* C9 (as claimed): a tick at which the current Token has expiry > now + 1 minute
\* makes no exchange call and leaves the current Token unchanged.
C9_TickIdleWhenNotExpiring ==
    [][\A l \in Loops :
          (TickReceived(l) /\ auth.Token.expiry > now + Minute)
             => /\ loops'[l].calls = <<>>
                /\ loops'[l].pc = "waiting"
                /\ auth' = auth]_vars

\* C9 (amended): a tick at which the expiry of the current Token, in whole seconds,
\* is greater than now + 1 minute, in whole seconds, makes no exchange call and
\* leaves the current Token unchanged; so does any number of such ticks in a row.
C9_TickIdleWhenNotExpiringInSeconds ==
    [][\A l \in Loops :
          (TickReceived(l) /\ Unix(auth.Token.expiry) > Unix(now + Minute))
             => /\ loops'[l].calls = <<>>
                /\ loops'[l].pc = "waiting"
                /\ loops'[l].outcome = "idle"
                /\ auth' = auth]_vars

\* a tick has found the Token not close to expiring and the next tick is there
C9_Witness ==
    \E l \in Loops :
       /\ loops[l].outcome = "idle"
       /\ loops[l].pending
       /\ Unix(auth.Token.expiry) > Unix(now + Minute)

----------------------------------------------------------------------------
(* C10 *)

\* C10: the Credential Store entry is written only by the CLI flow after a successful
\* refresh exchange, and then with exactly the newly issued Token, the one installed;
\* no other path of the CLI flow, no Service flow and no tick of the Refresh Loop
\* changes it.
C10_StoreWrittenOnlyByCLIRefresh ==
    [][/\ store' # store
          => /\ FlowReturns
             /\ last'.flow = "cli"
             /\ Len(last'.calls) = 1
             /\ last'.calls[1].op = "refresh" /\ last'.calls[1].err = NoErr
       /\ (FlowReturns /\ last'.flow = "cli" /\ Len(last'.calls) = 1
             /\ last'.calls[1].err = NoErr /\ last'.err = NoErr)
          => /\ store' = last'.calls[1].tok
             /\ store' = last'.installed
             /\ store' = auth'.Token
             /\ last'.saved = store'
       /\ (FlowReturns /\ (last'.flow # "cli" \/ last'.calls = <<>>
                           \/ last'.calls[1].err # NoErr))
          => store' = store /\ last'.saved = NilToken
       /\ (\E l \in Loops : loops'[l] # loops[l] /\ ~FlowReturns) => store' = store]_vars

\* the CLI flow has refreshed and saved the Token it installed
C10_Witness ==
    /\ last.flow = "cli"
    /\ Len(last.calls) = 1
    /\ last.calls[1].err = NoErr
    /\ last.err = NoErr
    /\ store = last.calls[1].tok
    /\ store # last.loaded

----------------------------------------------------------------------------
(* C11 *)

\* the errors of clitoken.Get (line 158) and clitoken.Save (line 192)
PersistenceErrors == {"ErrTokenGet", "ErrTokenSave"}

\* C11 (as claimed): after a failure to load from or save to the Credential Store
\* during the CLI flow, the flow has returned the failure and the process keeps
\* running.
C11_PersistenceFailureNotFatal ==
    (last.flow = "cli" /\ last.err \in PersistenceErrors) => proc = "running"

\* C11 (amended): a failure to load from or save to the Credential Store during the
\* CLI flow is returned by the flow as its error, and the startup hook then ends the
\* process (logger.Fatalf): no Refresh Loop is started; after a load failure nothing
\* is installed and no exchange was made, after a save failure the newly issued
\* Token is installed and the Credential Store entry is unchanged.
C11_PersistenceFailureFatal ==
    [][(FlowReturns /\ last'.flow = "cli" /\ last'.err \in PersistenceErrors)
          => /\ proc' = "fatal"
             /\ loops' = loops
             /\ store' = store
             /\ last'.err = "ErrTokenGet"
                   => /\ last'.calls = <<>>
                      /\ auth' = auth
                      /\ last'.saved = NilToken
             /\ last'.err = "ErrTokenSave"
                   => /\ Len(last'.calls) = 1
                      /\ last'.calls[1].err = NoErr
                      /\ auth'.Token = last'.calls[1].tok
                      /\ last'.saved = last'.calls[1].tok]_vars

\* clitoken.Save has failed after a successful refresh exchange
C11_Witness ==
    /\ last.flow = "cli"
    /\ last.err = "ErrTokenSave"
    /\ proc = "fatal"
    /\ auth.Token = last.calls[1].tok
    /\ store = last.loaded

----------------------------------------------------------------------------
(* C12 *)

RECURSIVE Runes(_)
\* the characters of a string
Runes(str) ==
    IF str = <<>> THEN <<>>
    ELSE LET d == DecodeRune(str) IN <<d.r>> \o Runes(SubSeq(str, d.w + 1, Len(str)))

\* the detail for a structured error, the generic message otherwise
ChosenMessage(e) == IF e.kind = "errors.Error" THEN e.detail ELSE e.message

UpcasedFirst(chars) == IF chars = <<>> THEN <<>> ELSE <<ToUpper(chars[1])>> \o Tail(chars)

\* C12: for every error, the message Run prints is the chosen message (the detail for
\* a structured error, the generic message otherwise) with its first character
\* upper-cased and every other character unchanged, in the same order and number,
\* also for the empty string and for a first character encoded in several bytes.
C12_FirstCharacterUpcased ==
    proc = "exited"
       => Runes(stdout) = UpcasedFirst(Runes(ChosenMessage(runErr))) \o <<10>>

----------------------------------------------------------------------------
(* C13 *)

\* no refresh exchange among calls presents an empty refreshToken
NoEmptyRefresh(calls) ==
    \A i \in 1..Len(calls) : calls[i].op = "refresh" => calls[i].refresh # ""

\* C13: no refresh exchange is ever issued presenting an empty refreshToken, by the
\* CLI flow or by the Refresh Loop; the loop receives ticks only if the Token the
\* startup flow installed has a non-empty refreshToken; and a current Token with an
\* empty refreshToken is replaced only by the answer of a credential exchange.
C13_NoEmptyRefreshExchange ==
    /\ [](/\ NoEmptyRefresh(last.calls)
          /\ \A l \in Loops : NoEmptyRefresh(loops[l].calls))
    /\ [][/\ \A l \in Loops : TickReceived(l) => last.installed.refresh # ""
          /\ (auth.Token # NilToken /\ auth.Token.refresh = "" /\ auth'.Token # auth.Token)
                => \E l \in Loops : RegenerateAnswered(l)]_vars

----------------------------------------------------------------------------
(* C14 *)

\* a step in which an exchange of goroutine l is answered with the Token tok
ExchangeSucceeds(l, tok) ==
    \/ RefreshAnswered(l) /\ loops'[l].calls[1].err = NoErr /\ loops'[l].calls[1].tok = tok
    \/ RegenerateAnswered(l) /\ loops'[l].calls[2].err = NoErr /\ loops'[l].calls[2].tok = tok

\* C14: after every tick in which an exchange (refresh or credential) succeeds, the
\* current Token is exactly the Token that exchange returned, the rest of the auth
\* state untouched; the current Token only ever changes, in one step, from one whole
\* Token to another whole Token (the one an exchange returned or a startup flow
\* installed), so that a reader sees the previous or the new Token and no mix of
\* both; and once a Token is installed the current Token is never absent again.
C14_TokenReplacedWhole ==
    [][/\ \A l \in Loops : \A tok \in NewTokens :
             ExchangeSucceeds(l, tok)
                => /\ auth'.Token = tok
                   /\ auth' = [auth EXCEPT !.Token = tok]
                   /\ loops'[l].pc = "waiting"
       /\ auth'.Token # auth.Token
             => \/ \E l \in Loops : ExchangeSucceeds(l, auth'.Token)
                \/ FlowReturns /\ auth'.Token = last'.installed
       /\ auth.Token # NilToken => auth'.Token # NilToken]_vars

\* a credential exchange of the loop has replaced a Token by the one it returned
C14_Witness ==
    \E l \in Loops :
       /\ loops[l].outcome = "regenerated"
       /\ auth.Token = loops[l].calls[2].tok
       /\ auth.Token # last.installed
       /\ auth.Token.expiry # last.installed.expiry

----------------------------------------------------------------------------
(* C15 *)

\* the goroutines that have passed the check of lines 241-244 and run their ticker
Running == {l \in Loops : loops[l].pc \in {"waiting", "refreshing", "regenerating"}}

\* C15: at every time at most one Refresh Loop is running in the process, however
\* often command.Before is executed in the process.
C15_AtMostOneLoop == Cardinality(Running) <= 1

----------------------------------------------------------------------------
(* C16 *)

\* the goroutines whose refresh or credential exchange is outstanding
InFlight == {l \in Loops : loops[l].pc \in {"refreshing", "regenerating"}}

\* C16: refresh attempts never overlap: at every time at most one exchange issued by
\* the Refresh Loop is outstanding, and the work of a tick never begins while the
\* refresh or credential exchange of an earlier tick is still outstanding, however
\* many ticks the ticker delivers meanwhile.
C16_NoOverlappingRefresh ==
    /\ [](Cardinality(InFlight) <= 1)
    /\ [][\A l \in Loops : TickReceived(l) => InFlight = {}]_vars

----------------------------------------------------------------------------
(* C17 *)

\* goroutine l has sent an exchange
HasExchanged(l) == loops[l].calls # <<>> \/ l \in InFlight

----------------------------------------------------------------------------
(* C18 *)

\* C18: once started with an installed Token, the Refresh Loop has no terminal state,
\* whatever failures its exchanges meet (ErrInvalidToken, a failed credential
\* exchange, any other error): a goroutine that runs its ticker goes on running it,
\* in a process that goes on running, so that a later tick can renew the Token.
C18_LoopNeverTerminates ==
    [][\A l \in Loops :
          (l \in Running /\ loops'[l] # loops[l])
             => /\ loops'[l].pc \in {"waiting", "refreshing", "regenerating"}
                /\ proc' = "running"]_vars

----------------------------------------------------------------------------
(* C19 *)

\* the generate calls among calls
Generates(calls) == {i \in 1..Len(calls) : calls[i].op = "generate"}

\* C19: the Service flow uses the supplied Account (the ID and secret the auth state
\* holds when the flow starts: in a first execution of the hook, the client_id and
\* client_secret flags), with no generate call, if and only if both the ID and the
\* secret are non-empty; if either is empty it makes one generate call, and the
\* credential exchange and the installed Account are the generated pair and hold
\* none of the supplied values.
C19_SuppliedAccountIffBoth ==
    [][(FlowReturns /\ last'.flow = "service")
          => LET supplied == [ID |-> auth.ID, Secret |-> auth.Secret]
                 calls == last'.calls
                 exchange == calls[Len(calls)]
             IN  /\ before.n = 0 => supplied = [ID |-> cfg.client_id, Secret |-> cfg.client_secret]
                 /\ Generates(calls) = {} <=> (supplied.ID # "" /\ supplied.Secret # "")
                 /\ Generates(calls) = {}
                       => /\ Len(calls) = 1
                          /\ exchange.op = "credentials"
                          /\ Presented(exchange) = supplied
                          /\ last'.err = NoErr
                                => /\ last'.account = supplied
                                   /\ [ID |-> auth'.ID, Secret |-> auth'.Secret] = supplied
                 /\ Generates(calls) # {}
                       => /\ Generates(calls) = {1}
                          /\ calls[1].err = NoErr
                                => /\ Len(calls) = 2
                                   /\ exchange.op = "credentials"
                                   /\ Presented(exchange) = Presented(calls[1])
                                   /\ exchange.id \notin {"", supplied.ID}
                                   /\ exchange.secret \notin {"", supplied.Secret}
                          /\ last'.err = NoErr
                                => /\ last'.account = Presented(calls[1])
                                   /\ [ID |-> auth'.ID, Secret |-> auth'.Secret]
                                         = Presented(calls[1])]_vars

\* the Service flow, given an ID without a secret, has installed a generated Account
C19_Witness ==
    /\ last.flow = "service"
    /\ last.err = NoErr
    /\ cfg.client_id = "id0" /\ cfg.client_secret = ""
    /\ last.n = 1
    /\ auth.ID = GeneratedAccount(1).ID
    /\ auth.Secret = GeneratedAccount(1).Secret

----------------------------------------------------------------------------
(* C20 *)

\* C20 (as claimed): whenever the CLI flow returns, with success or with failure,
\* and a Token is installed in the auth state, the Credential Store entry holds
\* exactly that Token.
C20_InstalledIsPersisted ==
    [][(FlowReturns /\ last'.flow = "cli" /\ auth'.Token # NilToken)
          => store' = auth'.Token]_vars

\* C20 (amended): whenever the CLI flow returns nil having installed a Token, that
\* Token is the current Token and the Credential Store entry holds exactly it; when
\* the flow has installed a Token and returns a failure, the failure is that of
\* clitoken.Save, the Credential Store entry still holds the Token the flow loaded,
\* not the installed one, and the process ends.
C20_InstalledIsPersistedOnSuccess ==
    [][(FlowReturns /\ last'.flow = "cli" /\ last'.installed # NilToken)
          => /\ auth'.Token = last'.installed
             /\ last'.err = NoErr
                   => /\ store' = last'.installed
                      /\ store' = auth'.Token
                      /\ proc' = "running"
             /\ last'.err # NoErr
                   => /\ last'.err = "ErrTokenSave"
                      /\ store' = store
                      /\ store' = last'.loaded
                      /\ store' # last'.installed
                      /\ proc' = "fatal"]_vars

\* the CLI flow has returned nil with the Token it installed equal to the stored one
C20_Witness ==
    /\ last.flow = "cli"
    /\ last.err = NoErr
    /\ last.installed # NilToken
    /\ auth.Token = last.installed
    /\ store = last.installed
    /\ proc = "running"

====
